---- MODULE Spec2Model ----
(***************************************************************************)
(* One /media-stream session of src/inbound-calls.js: the bridge between   *)
(* the caller leg (Twilio websocket, `connection`) and the agent leg       *)
(* (ElevenLabs websocket, `elevenWs`).  Every event handler of the source  *)
(* runs to completion on the Node event loop, so each handler is one       *)
(* atomic action.                                                          *)
(***************************************************************************)
EXTENDS Integers, Sequences, FiniteSets, TLC

\* ---------------------------------------------------------------- bounds
MaxCallerFrames == 3
MaxAgentFrames == 2

\* -------------------------------------------------------------- constants
NULL == "null"                      \* JS null / undefined / missing field
Sids == {"CA123", "CA456"}          \* stream identifiers a caller may assign
Payloads == {"QUJD", "REVG"}        \* opaque base64 audio payloads

\* JS truthiness of a string-or-missing value: null, undefined and "" are falsy
Truthy(x) == x \notin {NULL, ""}

\* Raw frames on the caller leg.  parses = FALSE is text JSON.parse rejects.
CallerRaw ==
       {[parses |-> TRUE, event |-> "start", streamSid |-> s, payload |-> NULL] :
            s \in Sids \cup {NULL, ""}}
  \cup {[parses |-> TRUE, event |-> "media", streamSid |-> NULL, payload |-> p] :
            p \in Payloads \cup {NULL}}
  \cup {[parses |-> TRUE, event |-> e, streamSid |-> NULL, payload |-> NULL] :
            e \in {"stop", "connected"}}
  \cup {[parses |-> FALSE, event |-> NULL, streamSid |-> NULL, payload |-> NULL]}

\* Raw frames on the agent leg.
AgentRaw ==
       {[parses |-> TRUE, type |-> "audio", audio_base_64 |-> p] :
            p \in Payloads \cup {NULL}}
  \cup {[parses |-> TRUE, type |-> t, audio_base_64 |-> NULL] :
            t \in {"interruption", "ping", "conversation_config"}}
  \cup {[parses |-> FALSE, type |-> NULL, audio_base_64 |-> NULL]}

NoFrame == [parses |-> FALSE, none |-> TRUE]

\* Frames the bridge sends to the agent leg (elevenWs.send)
ConfigFrame == [type |-> "conversation_config", body |-> "mulaw/8000"]
StartFrame == [type |-> "start", body |-> NULL]
ChunkFrame(p) == [type |-> "user_audio_chunk", body |-> p]

\* a media envelope with its two fields swapped
TwilioFrame_Swapped(sid, p) ==
  [event |-> "media", streamSid |-> p, payload |-> sid]

\* Frames the bridge sends to the caller leg (connection.send)
TwilioFrame(sid, p) == [event |-> "media", streamSid |-> sid, payload |-> p]
ClearFrame(sid) == [event |-> "clear", streamSid |-> sid, payload |-> NULL]

VARIABLES
  pc,                   \* "fetching": awaiting getSignedUrl, no handler attached
                        \* "bridging": agent socket created, handlers attached
                        \* "failed":   catch block ran
  connHasSocket,        \* whether the connection object exposes .socket
  connection,           \* caller leg readyState: OPEN, CLOSING, CLOSED
  elevenWs,             \* NULL, or the agent leg readyState
  streamSid,
  twilioStarted,
  elevenOpen,
  convoStarted,
  twilioInboundFrames,
  twilioOutboundFrames,
  agentOut,             \* frames passed to elevenWs.send, in order
  callerOut,            \* frames passed to connection.send, in order
  callerFrames,         \* number of frames that arrived on the caller leg
  agentFrames,          \* number of frames that arrived on the agent leg
  startArrived,         \* a start frame with a stream id arrived on the caller leg
  stopArrived,          \* a stop frame arrived on the caller leg
  mediaAfterOpen,       \* media frames that arrived while the agent leg was open
  initError,            \* "none", "fetch" or "connect"
  closeCalls,           \* number of elevenWs.close() calls
  lastEvent             \* the event handled by the last step

vars == <<pc, connHasSocket, connection, elevenWs, streamSid, twilioStarted,
          elevenOpen, convoStarted, twilioInboundFrames, twilioOutboundFrames,
          agentOut, callerOut, callerFrames, agentFrames, startArrived,
          stopArrived, mediaAfterOpen, initError, closeCalls, lastEvent>>

flags == <<streamSid, twilioStarted, elevenOpen, convoStarted>>
counters == <<twilioInboundFrames, twilioOutboundFrames>>
history == <<startArrived, stopArrived, mediaAfterOpen, initError>>

Init ==
  /\ pc = "fetching"
  /\ connHasSocket \in BOOLEAN
  /\ connection = "OPEN"
  /\ elevenWs = NULL
  /\ streamSid = NULL
  /\ twilioStarted = FALSE
  /\ elevenOpen = FALSE
  /\ convoStarted = FALSE
  /\ twilioInboundFrames = 0
  /\ twilioOutboundFrames = 0
  /\ agentOut = <<>>
  /\ callerOut = <<>>
  /\ callerFrames = 0
  /\ agentFrames = 0
  /\ startArrived = FALSE
  /\ stopArrived = FALSE
  /\ mediaAfterOpen = 0
  /\ initError = "none"
  /\ closeCalls = 0
  /\ lastEvent = [name |-> "connect", raw |-> NoFrame]

\* ------------------------------------------------------------- helpers

\* tryStartConversation without its `if (convoStarted) return`
GateOpen_NoConvoGuard(cs, ts, sid, ws, eo) ==
  /\ ts /\ Truthy(sid)
  /\ ws # NULL /\ ws = "OPEN"
  /\ eo

\* tryStartConversation trusting elevenOpen, without its readyState test
GateOpen_NoReadyState(cs, ts, sid, ws, eo) ==
  /\ ~cs
  /\ ts /\ Truthy(sid)
  /\ eo

\* tryStartConversation's guards: TRUE when the start signal is sent
GateOpen(cs, ts, sid, ws, eo) ==
  /\ ~cs
  /\ ts /\ Truthy(sid)
  /\ ws # NULL /\ ws = "OPEN"
  /\ eo

\* tryStartConversation, given the values the handler has just assigned
tryStartConversation(ts, sid, ws, eo, out) ==
  IF GateOpen(convoStarted, ts, sid, ws, eo)
    THEN /\ convoStarted' = TRUE
         /\ agentOut' = Append(out, StartFrame)
    ELSE /\ convoStarted' = convoStarted
         /\ agentOut' = out

\* `if (elevenWs) elevenWs.close()`: close whatever handle exists
CloseCalled_AnyHandle(ws) == ws # NULL

\* the guard of every elevenWs.close() call:
\* `elevenWs && elevenWs.readyState === WebSocket.OPEN`
CloseCalled(ws) == ws # NULL /\ ws = "OPEN"

\* a close handler that only logs
CloseAgentIfOpen_LogOnly(ws) == ws

\* `if (elevenWs && elevenWs.readyState === WebSocket.OPEN) elevenWs.close()`
CloseAgentIfOpen(ws) ==
  IF CloseCalled(ws) THEN "CLOSING" ELSE ws

\* the close-call count after a handler that runs that statement
CountClose(ws) == IF CloseCalled(ws) THEN closeCalls + 1 ELSE closeCalls

\* ------------------------------------------------------------- actions

\* getSignedUrl resolved, new WebSocket(signedUrl) returned, handlers attached
FetchResolved ==
  /\ pc = "fetching"
  /\ pc' = "bridging"
  /\ elevenWs' = "CONNECTING"
  /\ lastEvent' = [name |-> "signedUrl", raw |-> NoFrame]
  /\ UNCHANGED <<connHasSocket, connection, flags, counters, agentOut,
                 callerOut, callerFrames, agentFrames, history, closeCalls>>

\* getSignedUrl rejected (cause "fetch") or new WebSocket threw (cause
\* "construct"): the catch block runs with elevenWs still null
InitFailed ==
  /\ pc = "fetching"
  /\ \E cause \in {"fetch", "construct"} :
       lastEvent' = [name |-> cause, raw |-> NoFrame]
  /\ pc' = "failed"
  /\ initError' = "fetch"
  /\ elevenWs' = CloseAgentIfOpen(elevenWs)
  /\ closeCalls' = CountClose(elevenWs)
  /\ connection' = IF connHasSocket /\ connection = "OPEN"
                     THEN "CLOSING" ELSE connection
  /\ UNCHANGED <<connHasSocket, flags, counters, agentOut, callerOut,
                 callerFrames, agentFrames, startArrived, stopArrived,
                 mediaAfterOpen>>

\* elevenWs.on("open")
ElevenOnOpen ==
  /\ pc = "bridging"
  /\ elevenWs = "CONNECTING"
  /\ elevenWs' = "OPEN"
  /\ elevenOpen' = TRUE
  /\ tryStartConversation(twilioStarted, streamSid, "OPEN", TRUE,
                          Append(agentOut, ConfigFrame))
  /\ lastEvent' = [name |-> "agentOpen", raw |-> NoFrame]
  /\ UNCHANGED <<pc, connHasSocket, connection, streamSid, twilioStarted,
                 counters, callerOut, callerFrames, agentFrames, history,
                 closeCalls>>

\* the audio branch without its `if (!streamSid) return`
AudioForwarded_NoSidCheck(msg, sid) ==
  msg.type = "audio" /\ Truthy(msg.audio_base_64)

\* the audio branch forwards: a valid audio frame and a known stream id
AudioForwarded(msg, sid) ==
  /\ msg.type = "audio" /\ Truthy(msg.audio_base_64)
  /\ Truthy(sid)

\* the interruption branch without its streamSid test
ClearSent_NoSidCheck(msg, sid) ==
  msg.type = "interruption"

\* a clear frame for every frame that is not audio
ClearSent_AnyControl(msg, sid) ==
  msg.type # "audio" /\ Truthy(sid)

\* the interruption branch sends a clear frame
ClearSent(msg, sid) ==
  msg.type = "interruption" /\ Truthy(sid)

\* a parse guard that answers the malformed frame with a clear envelope
DropMalformedAgent_Clear ==
  /\ callerOut' = Append(callerOut, ClearFrame(streamSid))
  /\ UNCHANGED twilioOutboundFrames

\* elevenWs.on("message") parse guard: `catch { return; }`
DropMalformedAgent ==
  UNCHANGED <<callerOut, twilioOutboundFrames>>

\* elevenWs.on("message")
ElevenOnMessage ==
  /\ pc = "bridging"
  /\ elevenWs \in {"OPEN", "CLOSING"}
  /\ agentFrames < MaxAgentFrames
  /\ \E raw \in AgentRaw :
       /\ lastEvent' = [name |-> "agentFrame", raw |-> raw]
       /\ IF ~raw.parses
            THEN DropMalformedAgent
            ELSE IF AudioForwarded(raw, streamSid)
              THEN /\ callerOut' = Append(callerOut,
                                     TwilioFrame(streamSid, raw.audio_base_64))
                   /\ twilioOutboundFrames' = twilioOutboundFrames + 1
              ELSE IF ClearSent(raw, streamSid)
                THEN /\ callerOut' = Append(callerOut, ClearFrame(streamSid))
                     /\ UNCHANGED twilioOutboundFrames
                ELSE UNCHANGED <<callerOut, twilioOutboundFrames>>
  /\ agentFrames' = agentFrames + 1
  /\ UNCHANGED <<pc, connHasSocket, connection, elevenWs, flags,
                 twilioInboundFrames, agentOut, callerFrames, history,
                 closeCalls>>

\* elevenWs.on("close"): the peer closed, or the closing handshake finished
ElevenOnClose ==
  /\ pc = "bridging"
  /\ elevenWs \in {"OPEN", "CLOSING"}
  /\ elevenWs' = "CLOSED"
  /\ lastEvent' = [name |-> "agentClose", raw |-> NoFrame]
  /\ UNCHANGED <<pc, connHasSocket, connection, flags, counters, agentOut,
                 callerOut, callerFrames, agentFrames, history, closeCalls>>

\* elevenWs.on("error"): a failed handshake or a broken connection; the
\* socket is closing when the handler runs and its close event follows
ElevenOnError ==
  /\ pc = "bridging"
  /\ elevenWs \in {"CONNECTING", "OPEN"}
  /\ elevenWs' = "CLOSING"
  /\ initError' = IF elevenWs = "CONNECTING" THEN "connect" ELSE initError
  /\ lastEvent' = [name |-> "agentError", raw |-> NoFrame]
  /\ UNCHANGED <<pc, connHasSocket, connection, flags, counters, agentOut,
                 callerOut, callerFrames, agentFrames, startArrived,
                 stopArrived, mediaAfterOpen, closeCalls>>

\* the media branch without its readyState test
MediaForwarded_NoReadyState(ws, data) ==
  /\ ws # NULL
  /\ Truthy(data.payload)

\* a media branch that waits for the conversation to start
MediaForwarded_Gated(ws, data) ==
  /\ ws # NULL
  /\ ws = "OPEN"
  /\ Truthy(data.payload)
  /\ convoStarted

\* the media branch forwards the payload to the agent leg
MediaForwarded(ws, data) ==
  /\ ws # NULL
  /\ ws = "OPEN"
  /\ Truthy(data.payload)

\* `streamSid = data.start?.streamSid || null`
StartSid(data) == IF Truthy(data.streamSid) THEN data.streamSid ELSE NULL

\* a parse guard that treats the malformed frame as fatal
DropMalformedCaller_Fatal ==
  /\ elevenWs' = CloseAgentIfOpen(elevenWs)
  /\ closeCalls' = CountClose(elevenWs)
  /\ UNCHANGED <<flags, agentOut, twilioInboundFrames>>

\* connection.on("message") parse guard: `catch { return; }`
DropMalformedCaller ==
  UNCHANGED <<flags, elevenWs, agentOut, twilioInboundFrames, closeCalls>>

\* connection.on("message"), once attached
HandleCallerFrame(raw) ==
  IF ~raw.parses
    THEN DropMalformedCaller
  ELSE IF raw.event = "start"
    THEN /\ streamSid' = StartSid(raw)
         /\ twilioStarted' = TRUE
         /\ tryStartConversation(TRUE, StartSid(raw), elevenWs, elevenOpen,
                                 agentOut)
         /\ UNCHANGED <<elevenOpen, elevenWs, twilioInboundFrames, closeCalls>>
  ELSE IF raw.event = "media"
    THEN /\ IF MediaForwarded(elevenWs, raw)
              THEN /\ agentOut' = Append(agentOut, ChunkFrame(raw.payload))
                   /\ twilioInboundFrames' = twilioInboundFrames + 1
              ELSE UNCHANGED <<agentOut, twilioInboundFrames>>
         /\ UNCHANGED <<flags, elevenWs, closeCalls>>
  ELSE IF raw.event = "stop"
    THEN /\ elevenWs' = CloseAgentIfOpen(elevenWs)
         /\ closeCalls' = CountClose(elevenWs)
         /\ UNCHANGED <<flags, agentOut, twilioInboundFrames>>
  ELSE UNCHANGED <<flags, elevenWs, agentOut, twilioInboundFrames, closeCalls>>

\* A frame arrives on the caller leg.  Before the handlers are attached
\* (pc = "fetching") or after the catch block (pc = "failed") the message
\* event has no listener and the frame is lost.
ConnectionOnMessage ==
  /\ connection = "OPEN"
  /\ callerFrames < MaxCallerFrames
  /\ \E raw \in CallerRaw :
       /\ lastEvent' = [name |-> "callerFrame", raw |-> raw]
       /\ startArrived' = (startArrived \/
                             (raw.event = "start" /\ Truthy(raw.streamSid)))
       /\ stopArrived' = (stopArrived \/ raw.event = "stop")
       /\ mediaAfterOpen' = IF raw.event = "media" /\ elevenWs = "OPEN"
                              THEN mediaAfterOpen + 1 ELSE mediaAfterOpen
       /\ IF pc = "bridging"
            THEN HandleCallerFrame(raw)
            ELSE UNCHANGED <<flags, elevenWs, agentOut, twilioInboundFrames,
                             closeCalls>>
  /\ callerFrames' = callerFrames + 1
  /\ UNCHANGED <<pc, connHasSocket, connection, twilioOutboundFrames,
                 callerOut, agentFrames, initError>>

\* connection.on("close"): the caller hung up, or the closing handshake
\* started by the catch block or by an error finished
ConnectionOnClose ==
  /\ connection \in {"OPEN", "CLOSING"}
  /\ connection' = "CLOSED"
  /\ elevenWs' = IF pc = "bridging" THEN CloseAgentIfOpen(elevenWs)
                                    ELSE elevenWs
  /\ closeCalls' = IF pc = "bridging" THEN CountClose(elevenWs)
                                      ELSE closeCalls
  /\ lastEvent' = [name |-> "callerClose", raw |-> NoFrame]
  /\ UNCHANGED <<pc, connHasSocket, flags, counters, agentOut, callerOut,
                 callerFrames, agentFrames, history>>

\* connection.on("error"): the socket is closing when the handler runs and
\* its close event follows
ConnectionOnError ==
  /\ connection = "OPEN"
  /\ connection' = "CLOSING"
  /\ elevenWs' = IF pc = "bridging" THEN CloseAgentIfOpen(elevenWs)
                                    ELSE elevenWs
  /\ closeCalls' = IF pc = "bridging" THEN CountClose(elevenWs)
                                      ELSE closeCalls
  /\ lastEvent' = [name |-> "callerError", raw |-> NoFrame]
  /\ UNCHANGED <<pc, connHasSocket, flags, counters, agentOut, callerOut,
                 callerFrames, agentFrames, history>>

Next ==
  \/ FetchResolved
  \/ InitFailed
  \/ ElevenOnOpen
  \/ ElevenOnMessage
  \/ ElevenOnClose
  \/ ElevenOnError
  \/ ConnectionOnMessage
  \/ ConnectionOnClose
  \/ ConnectionOnError

Spec == Init /\ [][Next]_vars

TypeOK ==
  /\ pc \in {"fetching", "bridging", "failed"}
  /\ connection \in {"OPEN", "CLOSING", "CLOSED"}
  /\ elevenWs \in {NULL, "CONNECTING", "OPEN", "CLOSING", "CLOSED"}
  /\ streamSid \in Sids \cup {NULL}
  /\ twilioStarted \in BOOLEAN /\ elevenOpen \in BOOLEAN
  /\ convoStarted \in BOOLEAN
  /\ callerFrames \in 0..MaxCallerFrames
  /\ agentFrames \in 0..MaxAgentFrames
  /\ closeCalls \in 0..1

\* ------------------------------------------------------------ properties

\* number of start-conversation signals sent to the agent leg
NumStart == Cardinality({i \in DOMAIN agentOut : agentOut[i] = StartFrame})

\* number of user-audio-chunk frames sent to the agent leg
NumChunks(out) ==
  Cardinality({i \in DOMAIN out : out[i].type = "user_audio_chunk"})

\* the last step handled this kind of caller frame
LastCallerFrame(e) ==
  lastEvent.name = "callerFrame" /\ lastEvent.raw.event = e

\* the last step handled this kind of agent frame
LastAgentFrame(t) ==
  lastEvent.name = "agentFrame" /\ lastEvent.raw.type = t

\* C1: the start-conversation signal is sent to the agent leg exactly once,
\* and only after both the caller start frame has arrived and the agent leg
\* has opened, whatever the order of the two events (the start frame may
\* arrive while the credential fetch or the handshake is in flight).
C1_StartExactlyOnce ==
  /\ NumStart <= 1
  /\ NumStart = 1 => startArrived /\ elevenOpen
  /\ startArrived /\ elevenWs = "OPEN" => NumStart = 1

\* a step that sends the start-conversation signal does so through the gate
StartSentThroughGate ==
  (Len(agentOut') > Len(agentOut) /\ agentOut'[Len(agentOut')] = StartFrame)
    => (/\ ~convoStarted /\ convoStarted'
        /\ twilioStarted' /\ Truthy(streamSid')
        /\ elevenOpen' /\ elevenWs' = "OPEN")

\* C2: conversation-started goes from false to true at most once, the
\* start-conversation signal is sent at most once, and when it is sent
\* caller-started holds, the stream identifier is present and the agent leg
\* is open.
C2_GateIdempotent ==
  /\ [](NumStart <= 1)
  /\ [][convoStarted => convoStarted']_vars
  /\ [][StartSentThroughGate]_vars

\* C2 witness: a repeated start frame handled after the conversation started
C2_Witness ==
  /\ LastCallerFrame("start") /\ Truthy(lastEvent.raw.streamSid)
  /\ convoStarted /\ elevenWs = "OPEN"
  /\ callerFrames >= 2 /\ NumStart = 1
  /\ agentOut[Len(agentOut)] = StartFrame
  /\ agentOut[1] = ConfigFrame /\ Len(agentOut) = 2

\* the caller leg leaves OPEN while the agent leg is open: the agent leg closes
CallerCloseStep ==
  (connection = "OPEN" /\ connection' # "OPEN" /\ elevenWs = "OPEN")
    => elevenWs' \in {"CLOSING", "CLOSED"}

\* a closing or closed agent leg stays so
AgentStaysClosed ==
  elevenWs \in {"CLOSING", "CLOSED"} => elevenWs' \in {"CLOSING", "CLOSED"}

\* C3: a close or error event of the caller leg while the agent leg is open
\* closes the agent leg, and a closing or closed agent leg never reopens.
C3_CallerCloseClosesAgent ==
  /\ [][CallerCloseStep]_vars
  /\ [][AgentStaysClosed]_vars

\* C3 witness: the caller hung up on an open agent leg, which is now closing
C3_Witness ==
  /\ lastEvent.name = "callerClose"
  /\ connection = "CLOSED"
  /\ elevenOpen /\ elevenWs = "CLOSING"
  /\ ~stopArrived

\* C4: once the agent leg has closed (close or error event), the caller leg
\* is closed too.
C4_AgentCloseClosesCaller ==
  elevenWs = "CLOSED" => connection # "OPEN"

\* C5: the session never has the caller leg closed and the agent leg open.
C5_NoAgentLeak ==
  ~(connection = "CLOSED" /\ elevenWs = "OPEN")

\* C6: once the caller has sent a stop frame the agent leg is not open.
C6_StopClosesAgent ==
  stopArrived => elevenWs # "OPEN"

\* C7: after a credential fetch error or an agent-leg connect error the
\* caller leg is closed.
C7_InitFailureClosesCaller ==
  initError # "none" => connection # "OPEN"

\* a step that sends a chunk handles a media frame on an open agent leg
ChunkSentStep ==
  (NumChunks(agentOut') > NumChunks(agentOut))
    => (/\ elevenWs = "OPEN"
        /\ lastEvent'.name = "callerFrame"
        /\ lastEvent'.raw.event = "media"
        /\ agentOut' = Append(agentOut, [type |-> "user_audio_chunk",
                                         body |-> lastEvent'.raw.payload]))

\* C8: a user-audio-chunk frame is sent only while handling a caller media
\* frame that arrived while the agent leg was open, and no more chunks are
\* sent than media frames arrived after the agent leg opened.
C8_MediaBeforeOpenDropped ==
  /\ [](NumChunks(agentOut) <= mediaAfterOpen)
  /\ [][ChunkSentStep]_vars

\* C8 witness: a media frame with a payload was handled while the agent leg
\* was still connecting, and nothing was sent to the agent leg
C8_Witness ==
  /\ LastCallerFrame("media") /\ Truthy(lastEvent.raw.payload)
  /\ pc = "bridging" /\ elevenWs = "CONNECTING"
  /\ agentOut = <<>>

\* an agent frame handled without a stream identifier sends nothing
NoSidStep ==
  (agentFrames' = agentFrames + 1 /\ streamSid \in {NULL, ""})
    => callerOut' = callerOut

\* C9: an agent audio frame handled while the stream identifier is unknown
\* sends nothing to the caller leg, and every envelope sent to the caller
\* leg carries a present, non-empty stream identifier.
C9_NoEnvelopeWithoutSid ==
  /\ [](\A i \in DOMAIN callerOut : callerOut[i].streamSid \notin {NULL, ""})
  /\ [][NoSidStep]_vars

\* C9 witness: an audio frame with a payload was handled with no stream
\* identifier and dropped
C9_Witness ==
  /\ LastAgentFrame("audio") /\ Truthy(lastEvent.raw.audio_base_64)
  /\ streamSid = NULL /\ ~twilioStarted
  /\ callerOut = <<>>

\* an audio frame handled with a known stream identifier is translated
AudioStep ==
  (/\ agentFrames' = agentFrames + 1
   /\ lastEvent'.raw.type = "audio"
   /\ lastEvent'.raw.audio_base_64 \in Payloads
   /\ streamSid \in Sids)
    => callerOut' = Append(callerOut,
          [event |-> "media", streamSid |-> streamSid,
           payload |-> lastEvent'.raw.audio_base_64])

\* C10: an agent audio frame with payload p handled while the stream
\* identifier s is known sends exactly one envelope to the caller leg:
\* event "media", streamSid s, payload p.
C10_AudioTranslated ==
  [][AudioStep]_vars

\* C10 witness: the audio frame "QUJD" was handled with stream id "CA123"
C10_Witness ==
  /\ LastAgentFrame("audio") /\ lastEvent.raw.audio_base_64 = "QUJD"
  /\ streamSid = "CA123"
  /\ callerOut = <<[event |-> "media", streamSid |-> "CA123",
                    payload |-> "QUJD"]>>
  /\ twilioOutboundFrames = 1

\* an interruption frame sends one clear frame when the stream id is known
InterruptionStep ==
  (agentFrames' = agentFrames + 1 /\ lastEvent'.raw.type = "interruption")
    => callerOut' = IF streamSid \in Sids
                      THEN Append(callerOut, [event |-> "clear",
                                              streamSid |-> streamSid,
                                              payload |-> NULL])
                      ELSE callerOut

\* C11: an agent interruption frame handled while the stream identifier is
\* known sends exactly one clear frame carrying that identifier to the caller
\* leg, and one handled while it is unknown sends none.
C11_InterruptionClears ==
  [][InterruptionStep]_vars

\* C11 witness: an interruption was handled with stream id "CA123"
C11_Witness ==
  /\ LastAgentFrame("interruption")
  /\ streamSid = "CA123"
  /\ callerOut = <<[event |-> "clear", streamSid |-> "CA123",
                    payload |-> NULL]>>

\* a media frame with a payload on an open agent leg is forwarded as one chunk
MediaStep ==
  (/\ callerFrames' = callerFrames + 1
   /\ lastEvent'.raw.event = "media"
   /\ lastEvent'.raw.payload \in Payloads
   /\ elevenWs = "OPEN")
    => agentOut' = Append(agentOut, [type |-> "user_audio_chunk",
                                     body |-> lastEvent'.raw.payload])

\* C12: every caller media frame with payload p that arrives while the agent
\* leg is open is forwarded as exactly one user-audio-chunk frame with
\* payload p, whether or not caller-started or conversation-started holds.
C12_MediaNotGated ==
  [][MediaStep]_vars

\* C12 witness: a chunk was forwarded before any start frame was handled
C12_Witness ==
  /\ LastCallerFrame("media")
  /\ ~twilioStarted /\ ~convoStarted
  /\ agentOut = <<ConfigFrame, [type |-> "user_audio_chunk", body |-> "QUJD"]>>

\* a malformed frame leaves both legs, both outputs and the flags alone
MalformedStep ==
  (/\ lastEvent'.name \in {"callerFrame", "agentFrame"}
   /\ (callerFrames' # callerFrames \/ agentFrames' # agentFrames)
   /\ ~lastEvent'.raw.parses)
    => UNCHANGED <<pc, connection, elevenWs, agentOut, callerOut, streamSid,
                   twilioStarted, elevenOpen, convoStarted, closeCalls>>

\* C13: handling a non-parseable frame on either leg sends no frame on either
\* leg, closes no leg and leaves the stream identifier and the three
\* readiness flags unchanged, so later frames are handled as before.
C13_MalformedDropped ==
  [][MalformedStep]_vars

\* C13 witness: a malformed caller frame was handled in a started
\* conversation and both legs are still open
C13_Witness ==
  /\ lastEvent.name = "callerFrame" /\ ~lastEvent.raw.parses
  /\ pc = "bridging" /\ convoStarted
  /\ connection = "OPEN" /\ elevenWs = "OPEN"

\* elevenWs.close() is called on an open agent leg only
CloseCallStep ==
  closeCalls' > closeCalls => elevenWs = "OPEN" /\ closeCalls' = closeCalls + 1

\* C14: over any sequence of caller stop frames and caller close/error
\* events, close is called on the agent leg at most once, and never on an
\* agent leg that is absent, connecting, closing or closed.
C14_CloseAtMostOnce ==
  /\ [](closeCalls <= 1)
  /\ [][CloseCallStep]_vars

\* C14 witness: a stop frame and the caller's close were both handled and
\* the agent leg was closed by one call
C14_Witness ==
  /\ lastEvent.name = "callerClose" /\ stopArrived
  /\ connection = "CLOSED"
  /\ elevenWs \in {"CLOSING", "CLOSED"}
  /\ closeCalls = 1

\* number of configuration frames sent to the agent leg
NumConfig == Cardinality({i \in DOMAIN agentOut : agentOut[i] = ConfigFrame})

\* C15: the open event sets agent-leg-open and sends the configuration frame
\* exactly once per session, and the configuration frame is the first frame
\* sent on the agent leg, before the start signal and every chunk.
C15_ConfigFirst ==
  /\ elevenOpen <=> agentOut # <<>>
  /\ elevenOpen => NumConfig = 1 /\ agentOut[1] = ConfigFrame
  /\ elevenWs = "OPEN" => elevenOpen

\* C15 witness: configuration, then a chunk, then the start signal
C15_Witness ==
  /\ elevenOpen
  /\ Len(agentOut) = 3
  /\ agentOut[1] = ConfigFrame
  /\ agentOut[2].type = "user_audio_chunk"
  /\ agentOut[3] = StartFrame

\* an agent frame changes no flag, and one that is neither audio nor
\* interruption sends nothing
AgentFrameStep ==
  (agentFrames' = agentFrames + 1)
    => /\ UNCHANGED <<streamSid, twilioStarted, elevenOpen, convoStarted>>
       /\ (lastEvent'.raw.parses
             /\ lastEvent'.raw.type \notin {"audio", "interruption"})
            => UNCHANGED <<callerOut, agentOut>>

\* C16: an agent frame whose discriminant is neither audio nor interruption
\* sends nothing to either leg, and no agent frame changes the stream
\* identifier or the readiness flags.
C16_OtherFramesIgnored ==
  [][AgentFrameStep]_vars

\* C16 witness: a conversation_config frame was handled with a known stream
\* identifier and nothing was sent to the caller leg
C16_Witness ==
  /\ LastAgentFrame("conversation_config")
  /\ streamSid \in Sids /\ convoStarted
  /\ callerOut = <<>>

\* C17: conversation-started implies caller-started, agent-leg-open and a
\* present, non-empty stream identifier.
C17_GateImpliesIdentifiers ==
  convoStarted => twilioStarted /\ elevenOpen /\ Truthy(streamSid)

\* a frame is sent to the agent leg only while it is open
AgentSendStep ==
  /\ Len(agentOut') > Len(agentOut) => elevenWs' = "OPEN"
  /\ (elevenWs \in {NULL, "CLOSING", "CLOSED"} /\ callerFrames' # callerFrames)
       => agentOut' = agentOut

\* C18: every frame sent to the agent leg is sent while the agent leg is
\* open; a caller start frame handled after the agent leg has closed does
\* not send the start-conversation signal.
C18_SendOnlyWhenOpen ==
  [][AgentSendStep]_vars

\* C18 witness: the first start frame was handled after the agent leg had
\* opened and closed, and no start signal was sent
C18_Witness ==
  /\ LastCallerFrame("start") /\ Truthy(lastEvent.raw.streamSid)
  /\ pc = "bridging" /\ elevenOpen
  /\ elevenWs \in {"CLOSING", "CLOSED"}
  /\ twilioStarted /\ streamSid \in Sids
  /\ ~convoStarted /\ agentOut = <<ConfigFrame>>

\* nothing is passed to connection.send once the caller leg is closed
NoSendAfterCallerClose ==
  connection = "CLOSED" => callerOut' = callerOut

\* C19: after the caller leg has closed no media or clear envelope is sent
\* to it, even when agent frames still arrive on a closing agent leg.
C19_NoSendToClosedCaller ==
  [][NoSendAfterCallerClose]_vars

====
